---- MODULE Spec2Model ----
(***************************************************************************)
(* NoteManager: an express server (src/server.js) whose request handlers   *)
(* read and rewrite one JSON file, ./data.json, through the helpers of     *)
(* src/jsonTools.js.  Every handler is synchronous from its first line to  *)
(* its response (readFileSync, hashSync, compareSync, writeFileSync), so   *)
(* on node's single thread a handler runs to completion before the next    *)
(* request is served: one action per handler.                              *)
(*                                                                         *)
(* Strings that the code only compares for equality or emptiness are TLA+  *)
(* strings ("" is a missing or empty argument).  Strings that the code     *)
(* parses (colors, ids) are sequences of one-character strings.            *)
(***************************************************************************)
EXTENDS Integers, Sequences, FiniteSets, TLC

\* ------------------------------------------------------------------ bounds
\* Category ids the model lets Category Create assign (ids grow without
\* bound in the code; the guard of CategoryCreate caps them).
MaxId == 2

\* ------------------------------------------------------------ input sets
HexChars ==
  {"0", "1", "2", "3", "4", "5", "6", "7", "8", "9",
   "a", "b", "c", "d", "e", "f", "A", "B", "C", "D", "E", "F"}

ColorA == <<"#", "1", "a", "2", "B", "3", "c">>
ColorB == <<"#", "F", "F", "0", "0", "9", "9">>
ColorRed == <<"r", "e", "d">>
ColorShort == <<"#", "f", "f", "f">>
ColorG == <<"#", "G", "G", "G", "G", "G", "G">>
\* String(undefined)
ColorUndefined == <<"u", "n", "d", "e", "f", "i", "n", "e", "d">>

\* The value of the color field of a parsed body (express.json, or urlencoded
\* with extended: true): a string, an array of strings, or undefined when the
\* body has no color.  items holds the string, or the array's elements.
StringValue(chars) == [kind |-> "string", items |-> <<chars>>]
ArrayValue(items) == [kind |-> "array", items |-> items]
UndefinedValue == [kind |-> "undefined", items |-> <<>>]

RECURSIVE Join(_)
\* Array.prototype.join(","), which is what String(array) returns
Join(items) ==
  IF items = <<>> THEN <<>>
  ELSE IF Len(items) = 1 THEN items[1]
       ELSE items[1] \o <<",">> \o Join(Tail(items))

\* String(value)
StringOf(v) ==
  CASE v.kind = "string" -> v.items[1]
    [] v.kind = "array" -> Join(v.items)
    [] v.kind = "undefined" -> ColorUndefined

DigitChars == <<"0", "1", "2", "3", "4", "5", "6", "7", "8", "9">>
DigitString(n) == <<DigitChars[n + 1]>>

\* The arguments requests are drawn from.  usernames, passwords, owners, ids
\* and fields (name and color of a category) are what a well-formed request
\* carries; ids include an id no category has, a non-numeric id and a
\* numeric prefix followed by junk; badFields are the rejected name / color
\* pairs, oddFields the pairs whose color is not a string.  Every action
\* also sends each argument missing ("" or <<>>).
\*
\* UserFocus: the user endpoints with two usernames, two passwords and two
\* salts, beside categories of one owner.
UserFocus ==
  [usernames |-> {"a", "b"}, passwords |-> {"p", "q"}, salts |-> {"s1", "s2"},
   owners |-> {"a"},
   ids |-> {DigitString(n) : n \in 1..MaxId} \cup {<<"x">>},
   fields |-> {<<"n1", StringValue(ColorA)>>},
   badFields |-> {<<"", StringValue(ColorA)>>, <<"n1", StringValue(ColorRed)>>},
   oddFields |-> {}]

\* CategoryFocus: the category endpoints with two owners and two name / color
\* pairs, beside one user.
CategoryFocus ==
  [usernames |-> {"a"}, passwords |-> {"p"}, salts |-> {"s1"},
   owners |-> {"a", "b"},
   ids |-> {DigitString(n) : n \in 1..(MaxId + 1)} \cup {<<"x">>, <<"2", "x">>},
   fields |-> {<<"n1", StringValue(ColorA)>>, <<"n2", StringValue(ColorB)>>},
   badFields |-> {<<"", StringValue(ColorA)>>, <<"n1", StringValue(ColorRed)>>,
                  <<"n1", StringValue(ColorShort)>>, <<"n1", StringValue(ColorG)>>,
                  <<"n1", UndefinedValue>>},
   oddFields |-> {<<"n1", ArrayValue(<<ColorA>>)>>,
                  <<"n1", ArrayValue(<<ColorA, ColorB>>)>>}]

Usernames == UserFocus.usernames \cup CategoryFocus.usernames
Passwords == UserFocus.passwords \cup CategoryFocus.passwords

\* ------------------------------------------------------------ the document
\* The parsed JSON document: hasUser / hasCategory say whether the key holds
\* an array (Array.isArray), user / category are the arrays.
EmptyDoc ==
  [hasUser |-> FALSE, user |-> <<>>, hasCategory |-> FALSE, category |-> <<>>]

AbsentFile == [exists |-> FALSE, doc |-> EmptyDoc]

VARIABLES
  file,       \* ./data.json on disk
  resp,       \* the response to the last request
  trace,      \* what the last request's jsonTools call did
  pwOf,       \* history: the password of the last successful Create or
              \* UpdatePassword per username, "" after Delete or before Create
  maxCreated  \* history: the greatest id any successful Category Create returned

vars == <<file, resp, trace, pwOf, maxCreated>>

\* ---------------------------------------------------------------- jsonTools
loadJson(f) == IF f.exists THEN f.doc ELSE EmptyDoc

saveJson(f, obj) == [exists |-> TRUE, doc |-> obj]

\* bcrypt as an ideal salted hash
hashSync(passwd, salt) == [salt |-> salt, pw |-> passwd]

compareSync(passwd, hash) == hash.pw = passwd

\* /^#[0-9A-Fa-f]{6}$/.test(String(hex))
isValidHex(hex) ==
  LET s == StringOf(hex) IN
  /\ Len(s) = 7
  /\ s[1] = "#"
  /\ \A i \in 2..7 : s[i] \in HexChars

IsDigit(c) == \E i \in 1..10 : DigitChars[i] = c
DigitValue(c) == (CHOOSE i \in 1..10 : DigitChars[i] = c) - 1

NaN == -1

RECURSIVE DigitsValue(_, _)
DigitsValue(s, acc) ==
  IF s = <<>> \/ ~IsDigit(Head(s)) THEN acc
  ELSE DigitsValue(Tail(s), acc * 10 + DigitValue(Head(s)))

\* Number.parseInt(s, 10): the value of the leading digits, NaN without one
parseInt(s) ==
  IF s = <<>> \/ ~IsDigit(Head(s)) THEN NaN ELSE DigitsValue(s, 0)

\* the number a string is coerced to by ==: every character must be a digit
ToNumber(s) ==
  IF s # <<>> /\ \A i \in 1..Len(s) : IsDigit(s[i]) THEN DigitsValue(s, 0) ELSE NaN

\* Array.prototype.findIndex (and find), 1-based, 0 when nothing matches;
\* hits[i] is the callback's result on the i-th element
FindIndex(hits) ==
  IF \E i \in 1..Len(hits) : hits[i]
  THEN CHOOSE i \in 1..Len(hits) : hits[i] /\ \A j \in 1..(i - 1) : ~hits[j]
  ELSE 0

\* Array.prototype.splice(index, 1)
Splice(s, i) == SubSeq(s, 1, i - 1) \o SubSeq(s, i + 1, Len(s))

Max(a, b) == IF a >= b THEN a ELSE b

RECURSIVE MaxCatId(_)
\* json.category.reduce((maxId, cat) => Math.max(maxId, cat.id), 0)
MaxCatId(cats) ==
  IF cats = <<>> THEN 0 ELSE Max(MaxCatId(Tail(cats)), Head(cats).id)

\* ----------------------------------------------------------------- mutators
\* A mutator returns the document as it left it, whether it threw, and the
\* message of the Error it threw.  out is the value it assigned to a variable
\* of the enclosing handler (categoryId).
Returned(doc, out) == [doc |-> doc, threw |-> FALSE, error |-> "", out |-> out]
Threw(doc, msg) == [doc |-> doc, threw |-> TRUE, error |-> msg, out |-> 0]

\* if (!Array.isArray(data.user)) data.user = [];
InitUser(doc) ==
  IF doc.hasUser THEN doc ELSE [doc EXCEPT !.hasUser = TRUE, !.user = <<>>]

\* if (!Array.isArray(json.category)) json.category = [];
InitCategory(doc) ==
  IF doc.hasCategory THEN doc
  ELSE [doc EXCEPT !.hasCategory = TRUE, !.category = <<>>]

UserIndex(users, username) ==
  FindIndex([i \in 1..Len(users) |-> users[i].username = username])

\* a Create that appends without looking for the username
UserCreateMutatorNoLookup(data, username, passwd, salt) ==
  LET d == InitUser(data) IN
  Returned([d EXCEPT !.user =
              Append(@, [username |-> username,
                         passwd |-> hashSync(passwd, salt)])], 0)

UserCreateMutator(data, username, passwd, salt) ==
  LET d == InitUser(data) IN
  IF UserIndex(d.user, username) # 0 THEN Threw(d, "User already exists")
  ELSE Returned([d EXCEPT !.user =
                   Append(@, [username |-> username,
                              passwd |-> hashSync(passwd, salt)])], 0)

\* an UpdatePassword that does not verify the old password
UserUpdateMutatorNoCompare(data, username, oldPasswd, newPasswd, salt) ==
  LET d == InitUser(data)
      i == UserIndex(d.user, username)
  IN IF i = 0 THEN Threw(d, "User not found")
     ELSE Returned([d EXCEPT !.user[i].passwd = hashSync(newPasswd, salt)], 0)

UserUpdateMutator(data, username, oldPasswd, newPasswd, salt) ==
  LET d == InitUser(data)
      i == UserIndex(d.user, username)
  IN IF i = 0 THEN Threw(d, "User not found")
     ELSE IF ~compareSync(oldPasswd, d.user[i].passwd)
          THEN Threw(d, "Old password is incorrect")
          ELSE Returned([d EXCEPT !.user[i].passwd = hashSync(newPasswd, salt)], 0)

\* a Delete whose splice has no delete count: data.user.splice(index)
UserDeleteMutatorSpliceRest(data, username) ==
  LET d == InitUser(data)
      index == UserIndex(d.user, username)
  IN IF index = 0 THEN Threw(d, "User not found")
     ELSE Returned([d EXCEPT !.user = SubSeq(@, 1, index - 1)], 0)

UserDeleteMutator(data, username) ==
  LET d == InitUser(data)
      index == UserIndex(d.user, username)
  IN IF index = 0 THEN Threw(d, "User not found")
     ELSE Returned([d EXCEPT !.user = Splice(@, index)], 0)

\* a Create that numbers categories by the length of the collection
CategoryCreateMutatorByLength(json, name, color, user) ==
  LET d == InitCategory(json)
      categoryId == Len(d.category) + 1
  IN Returned([d EXCEPT !.category =
                 Append(@, [id |-> categoryId, name |-> name,
                            color |-> color, user |-> user])], categoryId)

CategoryCreateMutator(json, name, color, user) ==
  LET d == InitCategory(json)
      maxId == MaxCatId(d.category)
      \* (reduce(...) || 0) + 1
      categoryId == (IF maxId = NaN THEN 0 ELSE maxId) + 1
  IN Returned([d EXCEPT !.category =
                 Append(@, [id |-> categoryId, name |-> name,
                            color |-> color, user |-> user])], categoryId)

\* an Update that finds the category by id alone
CategoryUpdateMutatorAnyOwner(json, id, name, color, user) ==
  LET d == InitCategory(json)
      Test(cat) == cat.id = ToNumber(id)
      i == FindIndex([k \in 1..Len(d.category) |-> Test(d.category[k])])
  IN IF i = 0 THEN Threw(d, "Category not found")
     ELSE Returned([d EXCEPT !.category[i].name = name,
                             !.category[i].color = color], 0)

CategoryUpdateMutator(json, id, name, color, user) ==
  LET d == InitCategory(json)
      \* cat.id == data.id && cat.user === data.user
      Test(cat) == cat.id = ToNumber(id) /\ cat.user = user
      i == FindIndex([k \in 1..Len(d.category) |-> Test(d.category[k])])
  IN IF i = 0 THEN Threw(d, "Category not found")
     ELSE Returned([d EXCEPT !.category[i].name = name,
                             !.category[i].color = color], 0)

CategoryDeleteMutator(json, id, user) ==
  LET d == InitCategory(json)
      idNum == parseInt(id)
      Test(cat) == cat.id = idNum /\ cat.user = user
      index == FindIndex([k \in 1..Len(d.category) |-> Test(d.category[k])])
  IN IF idNum = NaN THEN Threw(d, "id must be an integer")
     ELSE IF index = 0 THEN Threw(d, "Category not found")
          ELSE Returned([d EXCEPT !.category = Splice(@, index)], 0)

\* The closure a handler passes to jsonTools: its kind and the request
\* arguments (and the salt hashSync will draw) it closes over.
Mutator(kind, username, passwd, newPasswd, salt, id, name, color) ==
  [kind |-> kind, username |-> username, passwd |-> passwd,
   newPasswd |-> newPasswd, salt |-> salt, id |-> id, name |-> name,
   color |-> color]

\* mutator(obj)
Call(m, obj) ==
  CASE m.kind = "user/create" ->
         UserCreateMutator(obj, m.username, m.passwd, m.salt)
    [] m.kind = "user/update" ->
         UserUpdateMutator(obj, m.username, m.passwd, m.newPasswd, m.salt)
    [] m.kind = "user/delete" -> UserDeleteMutator(obj, m.username)
    [] m.kind = "category/create" ->
         CategoryCreateMutator(obj, m.name, m.color, m.username)
    [] m.kind = "category/update" ->
         CategoryUpdateMutator(obj, m.id, m.name, m.color, m.username)
    [] m.kind = "category/delete" ->
         CategoryDeleteMutator(obj, m.id, m.username)

\* a jsonTools that writes the document back whatever the mutator did
jsonToolsSaveAlways(f, m) ==
  LET obj == loadJson(f)
      r == Call(m, obj)
  IN [file |-> saveJson(f, r.doc), threw |-> r.threw, error |-> r.error,
      out |-> r.out, saved |-> TRUE]

\* jsonTools(path, mutator): the file afterwards, whether the call threw (and
\* what), the mutator's out value, and whether saveJson was called
jsonTools(f, m) ==
  LET obj == loadJson(f)
      r == Call(m, obj)
  IN IF r.threw
     THEN [file |-> f, threw |-> TRUE, error |-> r.error, out |-> 0,
           saved |-> FALSE]
     ELSE [file |-> saveJson(f, r.doc), threw |-> FALSE, error |-> "",
           out |-> r.out, saved |-> TRUE]

\* ----------------------------------------------------------------- handlers
\* The JSON body and status of a response.  username, id and data are the
\* payload fields of a success (username; categoryId or id; categories or
\* category), "" / 0 / <<>> when the body has none.
Response(ep, status, success, text, username, id, data) ==
  [ep |-> ep, status |-> status, success |-> success,
   error |-> IF success THEN "" ELSE text,
   message |-> IF success THEN text ELSE "",
   username |-> username, id |-> id, data |-> data]

\* res.status(code).json({ success: false, error })
Failure(ep, status, error) == Response(ep, status, FALSE, error, "", 0, <<>>)

NoCall == [jt |-> "none", saved |-> FALSE, error |-> ""]
TraceOf(r) ==
  [jt |-> IF r.threw THEN "threw" ELSE "returned", saved |-> r.saved,
   error |-> r.error]

\* what a handler did: the file afterwards, its response, its jsonTools call
Handled(f, r, t) == [file |-> f, resp |-> r, trace |-> t]

\* try { jsonTools(...); res.json(ok) } catch (err) { res.status(400)... }
Mutating(ep, f, m, message, username, id) ==
  LET r == jsonTools(f, m) IN
  IF r.threw
  THEN Handled(r.file, Failure(ep, 400, r.error), TraceOf(r))
  ELSE Handled(r.file,
               Response(ep, 200, TRUE, message, username,
                        IF m.kind = "category/create" THEN r.out ELSE id, <<>>),
               TraceOf(r))

UserCreateHandler(f, username, passwd, salt) ==
  IF username = "" \/ passwd = ""
  THEN Handled(f, Failure("user/create", 400, "username and passwd are required"),
               NoCall)
  ELSE Mutating("user/create", f,
                Mutator("user/create", username, passwd, "", salt, <<>>, "", <<>>),
                "User created", username, 0)

\* a Get that reads through jsonTools with a mutator that changes nothing,
\* and so writes the document back
UserGetHandlerSaving(f, username) ==
  IF username = ""
  THEN Handled(f, Failure("user/get", 400, "username is required"), NoCall)
  ELSE LET data == loadJson(f)
           i == IF data.hasUser THEN UserIndex(data.user, username) ELSE 0
       IN IF i = 0
          THEN Handled(saveJson(f, data),
                       Failure("user/get", 404, "User not found"), NoCall)
          ELSE Handled(saveJson(f, data),
                       Response("user/get", 200, TRUE, "",
                                data.user[i].username, 0, <<>>), NoCall)

UserGetHandler(f, username) ==
  IF username = ""
  THEN Handled(f, Failure("user/get", 400, "username is required"), NoCall)
  ELSE LET data == loadJson(f)
           \* data.user?.find(...)
           i == IF data.hasUser THEN UserIndex(data.user, username) ELSE 0
       IN IF i = 0
          THEN Handled(f, Failure("user/get", 404, "User not found"), NoCall)
          ELSE Handled(f, Response("user/get", 200, TRUE, "",
                                   data.user[i].username, 0, <<>>), NoCall)

UserUpdateHandler(f, username, oldPasswd, newPasswd, salt) ==
  IF username = "" \/ oldPasswd = "" \/ newPasswd = ""
  THEN Handled(f, Failure("user/update", 400,
                          "username, oldPasswd and newPasswd are required"),
               NoCall)
  ELSE Mutating("user/update", f,
                Mutator("user/update", username, oldPasswd, newPasswd, salt,
                        <<>>, "", <<>>),
                "Password updated", username, 0)

UserDeleteHandler(f, username) ==
  IF username = ""
  THEN Handled(f, Failure("user/delete", 400, "username is required"), NoCall)
  ELSE Mutating("user/delete", f,
                Mutator("user/delete", username, "", "", "", <<>>, "", <<>>),
                "User deleted", username, 0)

\* a Verify that finds the user and does not compare the password
UserVerifyHandlerNoCompare(f, username, passwd) ==
  IF username = "" \/ passwd = ""
  THEN Handled(f, Failure("user/verify", 400, "username and passwd are required"),
               NoCall)
  ELSE LET data == loadJson(f)
           i == UserIndex(data.user, username)
       IN IF ~data.hasUser
          THEN Handled(f, Failure("user/verify", 404, "No users found"), NoCall)
          ELSE IF i = 0
          THEN Handled(f, Failure("user/verify", 404, "User not found"), NoCall)
          ELSE Handled(f, Response("user/verify", 200, TRUE, "Login successful",
                                   username, 0, <<>>), NoCall)

UserVerifyHandler(f, username, passwd) ==
  IF username = "" \/ passwd = ""
  THEN Handled(f, Failure("user/verify", 400, "username and passwd are required"),
               NoCall)
  ELSE LET data == loadJson(f)
           i == UserIndex(data.user, username)
       IN IF ~data.hasUser
          THEN Handled(f, Failure("user/verify", 404, "No users found"), NoCall)
          ELSE IF i = 0
          THEN Handled(f, Failure("user/verify", 404, "User not found"), NoCall)
          ELSE IF ~compareSync(passwd, data.user[i].passwd)
          THEN Handled(f, Failure("user/verify", 401, "Password incorrect"), NoCall)
          ELSE Handled(f, Response("user/verify", 200, TRUE, "Login successful",
                                   username, 0, <<>>), NoCall)

CategoryCreateHandler(f, name, color, user) ==
  IF name = ""
  THEN Handled(f, Failure("category/create", 400, "Category name is required"),
               NoCall)
  ELSE IF ~isValidHex(color)
  THEN Handled(f, Failure("category/create", 400, "Not a valid hex color"), NoCall)
  ELSE IF user = ""
  THEN Handled(f, Failure("category/create", 400, "User is required"), NoCall)
  ELSE Mutating("category/create", f,
                Mutator("category/create", user, "", "", "", <<>>, name, color),
                "Category created", "", 0)

\* (Array.isArray(data.category) ? data.category : [])
Categories(data) == IF data.hasCategory THEN data.category ELSE <<>>

RECURSIVE FilterByUserReversed(_, _)
\* a filter that collects the matches last-first
FilterByUserReversed(cats, user) ==
  IF cats = <<>> THEN <<>>
  ELSE IF Head(cats).user = user
       THEN FilterByUserReversed(Tail(cats), user) \o <<Head(cats)>>
       ELSE FilterByUserReversed(Tail(cats), user)

RECURSIVE FilterByUser(_, _)
\* .filter(cat => cat.user === user)
FilterByUser(cats, user) ==
  IF cats = <<>> THEN <<>>
  ELSE IF Head(cats).user = user
       THEN <<Head(cats)>> \o FilterByUser(Tail(cats), user)
       ELSE FilterByUser(Tail(cats), user)

CategoryListHandler(f, user) ==
  IF user = ""
  THEN Handled(f, Failure("category/list", 400, "User is required"), NoCall)
  ELSE Handled(f, Response("category/list", 200, TRUE, "", "", 0,
                           FilterByUser(Categories(loadJson(f)), user)),
               NoCall)

CategoryGetHandler(f, id, user) ==
  IF id = <<>>
  THEN Handled(f, Failure("category/get", 400, "Category id is required"), NoCall)
  ELSE IF user = ""
  THEN Handled(f, Failure("category/get", 400, "User is required"), NoCall)
  ELSE LET data == loadJson(f)
           idNum == parseInt(id)
           Test(cat) == cat.id = idNum /\ cat.user = user
           i == FindIndex([k \in 1..Len(Categories(data)) |->
                             Test(Categories(data)[k])])
       IN IF idNum = NaN
          THEN Handled(f, Failure("category/get", 400, "id must be an integer"),
                       NoCall)
          ELSE IF i = 0
          THEN Handled(f, Failure("category/get", 404, "Category not found"),
                       NoCall)
          ELSE Handled(f, Response("category/get", 200, TRUE, "", "", 0,
                                   <<Categories(data)[i]>>), NoCall)

\* the response echoes data.id; resp.id is the number it is equal (==) to
CategoryUpdateHandler(f, id, name, color, user) ==
  IF id = <<>>
  THEN Handled(f, Failure("category/update", 400, "Category id is required"),
               NoCall)
  ELSE IF name = ""
  THEN Handled(f, Failure("category/update", 400, "Category name is required"),
               NoCall)
  ELSE IF ~isValidHex(color)
  THEN Handled(f, Failure("category/update", 400, "Not a valid hex color"), NoCall)
  ELSE IF user = ""
  THEN Handled(f, Failure("category/update", 400, "User is required"), NoCall)
  ELSE Mutating("category/update", f,
                Mutator("category/update", user, "", "", "", id, name, color),
                "Category updated", "", ToNumber(id))

CategoryDeleteHandler(f, id, user) ==
  IF id = <<>>
  THEN Handled(f, Failure("category/delete", 400, "Category id is required"),
               NoCall)
  ELSE IF user = ""
  THEN Handled(f, Failure("category/delete", 400, "User is required"), NoCall)
  ELSE Mutating("category/delete", f,
                Mutator("category/delete", user, "", "", "", id, "", <<>>),
                "Category deleted", "", parseInt(id))

\* ------------------------------------------------------------------ actions
Init ==
  /\ file = AbsentFile
  /\ resp = Response("", 0, FALSE, "", "", 0, <<>>)
  /\ trace = [jt |-> "none", saved |-> FALSE, error |-> "", changed |-> FALSE]
  /\ pwOf = [u \in Usernames |-> ""]
  /\ maxCreated = 0

\* changed: whether the request left ./data.json different from what it was
Serve(h) ==
  /\ file' = h.file
  /\ resp' = h.resp
  /\ trace' = [jt |-> h.trace.jt, saved |-> h.trace.saved,
               error |-> h.trace.error, changed |-> h.file # file]

\* the requests of an endpoint: every well-formed one, and one with each
\* argument missing
UserPasswdInputs(I) ==
  (I.usernames \X I.passwords) \cup {<<"", "p">>, <<"a", "">>}

UsernameInputs(I) == I.usernames \cup {""}

UserUpdateInputs(I) ==
  (I.usernames \X I.passwords \X I.passwords)
    \cup {<<"", "p", "q">>, <<"a", "", "q">>, <<"a", "p", "">>}

CategoryCreateInputs(I) ==
  (I.fields \X I.owners)
    \cup ((I.badFields \cup I.oddFields) \X {"a"})
    \cup {<<<<"n1", StringValue(ColorA)>>, "">>}

IdOwnerInputs(I) ==
  (I.ids \X I.owners) \cup {<<<<>>, "a">>, <<<<"1">>, "">>}

CategoryUpdateInputs(I) ==
  (I.ids \X I.fields \X I.owners)
    \cup ({<<"1">>} \X (I.badFields \cup I.oddFields) \X {"a"})
    \cup {<<<<>>, <<"n1", StringValue(ColorA)>>, "a">>,
          <<<<"1">>, <<"n1", StringValue(ColorA)>>, "">>}

UserCreate(I) ==
  \E in \in UserPasswdInputs(I), salt \in I.salts :
    LET h == UserCreateHandler(file, in[1], in[2], salt) IN
    /\ Serve(h)
    /\ pwOf' = IF h.resp.success THEN [pwOf EXCEPT ![in[1]] = in[2]] ELSE pwOf
    /\ UNCHANGED maxCreated

UserGet(I) ==
  \E username \in UsernameInputs(I) :
    /\ Serve(UserGetHandler(file, username))
    /\ UNCHANGED <<pwOf, maxCreated>>

UserUpdate(I) ==
  \E in \in UserUpdateInputs(I), salt \in I.salts :
    LET h == UserUpdateHandler(file, in[1], in[2], in[3], salt) IN
    /\ Serve(h)
    /\ pwOf' = IF h.resp.success THEN [pwOf EXCEPT ![in[1]] = in[3]] ELSE pwOf
    /\ UNCHANGED maxCreated

UserDelete(I) ==
  \E username \in UsernameInputs(I) :
    LET h == UserDeleteHandler(file, username) IN
    /\ Serve(h)
    /\ pwOf' = IF h.resp.success THEN [pwOf EXCEPT ![username] = ""] ELSE pwOf
    /\ UNCHANGED maxCreated

UserVerify(I) ==
  \E in \in UserPasswdInputs(I) :
    /\ Serve(UserVerifyHandler(file, in[1], in[2]))
    /\ UNCHANGED <<pwOf, maxCreated>>

CategoryCreate(I) ==
  \E in \in CategoryCreateInputs(I) :
    LET h == CategoryCreateHandler(file, in[1][1], in[1][2], in[2]) IN
    /\ h.resp.success => h.resp.id <= MaxId
    /\ Serve(h)
    /\ maxCreated' = IF h.resp.success THEN Max(maxCreated, h.resp.id)
                     ELSE maxCreated
    /\ UNCHANGED pwOf

CategoryList(I) ==
  \E user \in I.owners \cup {""} :
    /\ Serve(CategoryListHandler(file, user))
    /\ UNCHANGED <<pwOf, maxCreated>>

CategoryGet(I) ==
  \E in \in IdOwnerInputs(I) :
    /\ Serve(CategoryGetHandler(file, in[1], in[2]))
    /\ UNCHANGED <<pwOf, maxCreated>>

CategoryUpdate(I) ==
  \E in \in CategoryUpdateInputs(I) :
    /\ Serve(CategoryUpdateHandler(file, in[1], in[2][1], in[2][2], in[3]))
    /\ UNCHANGED <<pwOf, maxCreated>>

CategoryDelete(I) ==
  \E in \in IdOwnerInputs(I) :
    /\ Serve(CategoryDeleteHandler(file, in[1], in[2]))
    /\ UNCHANGED <<pwOf, maxCreated>>

Next(I) ==
  \/ UserCreate(I)
  \/ UserGet(I)
  \/ UserUpdate(I)
  \/ UserDelete(I)
  \/ UserVerify(I)
  \/ CategoryCreate(I)
  \/ CategoryList(I)
  \/ CategoryGet(I)
  \/ CategoryUpdate(I)
  \/ CategoryDelete(I)

\* requests served one at a time, in any order
Spec == Init /\ [][Next(UserFocus)]_vars

SpecCategory == Init /\ [][Next(CategoryFocus)]_vars

\* ------------------------------------------------------------------- claims
UserRecords == file.doc.user
CategoryRecords == file.doc.category

\* C1: whenever the mutator passed to jsonTools throws, saveJson is not
\* called and the file is what it was before the call (an absent file is
\* still absent), and the thrown error reaches the handler, which answers
\* with success:false and the error's message; also when the mutator had
\* already changed the loaded document (data.user = []) before it threw.
C1_ThrowingMutatorSavesNothing ==
  trace.jt = "threw" =>
    /\ ~trace.saved
    /\ ~trace.changed
    /\ ~resp.success
    /\ resp.error = trace.error

\* a mutator that set data.user = [] on the document of an absent file and
\* then threw: the file is still absent
C1_Witness ==
  /\ trace.jt = "threw"
  /\ resp.error = "User not found"
  /\ ~file.exists
  /\ Call(Mutator("user/delete", "a", "", "", "", <<>>, "", <<>>),
          loadJson(file)).doc # loadJson(file)

\* C2: every successful Category Create returns an id strictly greater than
\* the id returned by every earlier successful Create, also when categories
\* were deleted in between (ids are never reused).
C2_IdsNeverReused ==
  [][(resp'.ep = "category/create" /\ resp'.success) => resp'.id > maxCreated]_vars

NotFoundErrors == {"User not found", "No users found", "Category not found"}
UnauthorizedErrors == {"Password incorrect", "Old password is incorrect"}

\* C3: on every endpoint a failure because no matching record exists is
\* answered with status 404 and a failure because a supplied password does
\* not verify is answered with status 401.
C3_StatusByErrorKind ==
  /\ resp.error \in NotFoundErrors => resp.status = 404
  /\ resp.error \in UnauthorizedErrors => resp.status = 401

IdsOf(cats) == [i \in 1..Len(cats) |-> cats[i].id]

\* C6: with requests served one at a time, no two records of the category
\* collection have the same id and every id is a positive integer: a
\* Category Create in the current state would assign max(ids, 0) + 1, an id
\* that no record of the collection has, an Update would leave the ids as
\* they are, and a Delete would leave the other records' ids as they are.
C6_UniqueCategoryIds ==
  /\ \A i, j \in 1..Len(CategoryRecords) :
       i # j => CategoryRecords[i].id # CategoryRecords[j].id
  /\ \A i \in 1..Len(CategoryRecords) : CategoryRecords[i].id >= 1
  /\ \A in \in CategoryFocus.fields \X CategoryFocus.owners :
       LET h == CategoryCreateHandler(file, in[1][1], in[1][2], in[2]) IN
       /\ h.resp.success
       /\ \A i \in 1..Len(CategoryRecords) :
            /\ CategoryRecords[i].id < h.resp.id
            /\ h.file.doc.category[i].id = CategoryRecords[i].id
       /\ \/ CategoryRecords = <<>> /\ h.resp.id = 1
          \/ \E i \in 1..Len(CategoryRecords) :
               CategoryRecords[i].id = h.resp.id - 1
  /\ \A in \in CategoryUpdateInputs(CategoryFocus) :
       LET h == CategoryUpdateHandler(file, in[1], in[2][1], in[2][2], in[3]) IN
       IdsOf(h.file.doc.category) = IdsOf(CategoryRecords)
  /\ \A in \in IdOwnerInputs(CategoryFocus) :
       LET h == CategoryDeleteHandler(file, in[1], in[2])
           Kept(id) == id # h.resp.id
       IN IdsOf(h.file.doc.category) =
            IF h.resp.success THEN SelectSeq(IdsOf(CategoryRecords), Kept)
            ELSE IdsOf(CategoryRecords)

\* a Create answered with an id other than 1: the collection holds two
\* records with different ids
C6_Witness ==
  /\ resp.ep = "category/create"
  /\ resp.success
  /\ resp.id > 1
  /\ Len(CategoryRecords) >= 2

RECURSIVE UsernamesOf(_)
UsernamesOf(users) ==
  IF users = <<>> THEN {} ELSE {Head(users).username} \cup UsernamesOf(Tail(users))

\* C7: with requests served one at a time, the user collection holds at most
\* one record per username: a User Create for a username that is present
\* fails with "User already exists" (status 400) and leaves the file
\* unchanged, for every password.
C7_UniqueUsernames ==
  /\ \A i, j \in 1..Len(UserRecords) :
       i # j => UserRecords[i].username # UserRecords[j].username
  /\ \A u \in UsernamesOf(UserRecords), p \in Passwords, salt \in UserFocus.salts :
       LET h == UserCreateHandler(file, u, p, salt) IN
       /\ ~h.resp.success
       /\ h.resp.status = 400
       /\ h.resp.error = "User already exists"
       /\ h.file = file

\* a second Create of a username, answered AlreadyExists, beside another user
C7_Witness ==
  /\ resp.ep = "user/create"
  /\ resp.error = "User already exists"
  /\ ~trace.changed
  /\ Len(UserRecords) = 2

\* C8: after a successful Create(u, p), and until a successful UpdatePassword
\* or Delete of u, Verify(u, p) succeeds with "Login successful" and
\* Verify(u, p') fails with status 401 for every non-empty p' other than p,
\* whatever was done to other users and to categories in between.
C8_VerifyAfterCreate ==
  \A u \in Usernames :
    pwOf[u] # "" =>
      /\ LET r == UserVerifyHandler(file, u, pwOf[u]).resp IN
         /\ r.success
         /\ r.status = 200
         /\ r.message = "Login successful"
         /\ r.username = u
      /\ \A q \in Passwords \ {pwOf[u]} :
           LET r == UserVerifyHandler(file, u, q).resp IN
           /\ ~r.success
           /\ r.status = 401
           /\ r.error = "Password incorrect"

\* a Verify with the wrong password answered 401, with a second user and a
\* category in the store
C8_Witness ==
  /\ resp.ep = "user/verify"
  /\ resp.status = 401
  /\ Len(UserRecords) = 2
  /\ Len(CategoryRecords) >= 1

\* C9: for an existing user u whose password is old and every new other
\* than old, UpdatePassword(u, old, new) succeeds, and then Verify(u, new)
\* succeeds and Verify(u, old) fails; UpdatePassword(u, wrong, new) with
\* wrong other than old fails with "Old password is incorrect" and leaves the
\* file, so the stored hash of u, unchanged: Verify(u, old) still succeeds.
C9_UpdatePassword ==
  \A u \in Usernames, salt \in UserFocus.salts :
    pwOf[u] # "" =>
      \A new \in Passwords :
        /\ new # pwOf[u] =>
             LET h == UserUpdateHandler(file, u, pwOf[u], new, salt) IN
             /\ h.resp.success
             /\ UserVerifyHandler(h.file, u, new).resp.success
             /\ ~UserVerifyHandler(h.file, u, pwOf[u]).resp.success
        /\ \A wrong \in Passwords \ {pwOf[u]} :
             LET h == UserUpdateHandler(file, u, wrong, new, salt) IN
             /\ ~h.resp.success
             /\ h.resp.error = "Old password is incorrect"
             /\ h.file = file
             /\ UserVerifyHandler(h.file, u, pwOf[u]).resp.success

\* a successful UpdatePassword of one of two users
C9_Witness ==
  /\ resp.ep = "user/update"
  /\ resp.success
  /\ Len(UserRecords) = 2
  /\ pwOf["a"] # pwOf["b"]

\* C10: after a successful Delete(u), and until a successful Create of u,
\* Get(u) fails with status 404 and "User not found"; Delete(u) removes
\* exactly the record of u and leaves the other user records, their order
\* and the categories as they are; Delete of a username that is not present
\* fails with "User not found" and changes nothing.
C10_UserDelete ==
  \A u \in Usernames :
    LET h == UserDeleteHandler(file, u)
        g == UserGetHandler(h.file, u).resp
        Other(r) == r.username # u
    IN /\ pwOf[u] = "" =>
            /\ UserGetHandler(file, u).resp.status = 404
            /\ UserGetHandler(file, u).resp.error = "User not found"
       /\ u \in UsernamesOf(UserRecords) =>
            /\ h.resp.success
            /\ h.file.doc.user = SelectSeq(UserRecords, Other)
            /\ Len(h.file.doc.user) = Len(UserRecords) - 1
            /\ h.file.doc.category = CategoryRecords
            /\ h.file.doc.hasCategory = file.doc.hasCategory
            /\ g.status = 404 /\ g.error = "User not found"
       /\ u \notin UsernamesOf(UserRecords) =>
            /\ ~h.resp.success
            /\ h.resp.error = "User not found"
            /\ h.file = file

\* a successful Delete that left the other user in the store
C10_Witness ==
  /\ resp.ep = "user/delete"
  /\ resp.success
  /\ Len(UserRecords) = 1
  /\ pwOf[resp.username] = ""

\* C11: Category List(owner), for every non-empty owner and in every state of
\* the store, answers success:true with exactly the records of the category
\* collection whose user is owner, in the order of the collection, which is
\* the order of creation (ids ascending); with no category collection or no
\* file the list is empty.
C11_ListByOwner ==
  \A owner \in CategoryFocus.owners :
    LET r == CategoryListHandler(file, owner).resp
        Owned(cat) == cat.user = owner
    IN /\ r.success
       /\ r.status = 200
       /\ r.data = SelectSeq(CategoryRecords, Owned)
       /\ \A i \in 1..Len(CategoryRecords) :
            CategoryRecords[i].user = owner <=>
              \E k \in 1..Len(r.data) : r.data[k] = CategoryRecords[i]
       /\ \A k, l \in 1..Len(r.data) : k < l => r.data[k].id < r.data[l].id
       /\ (~file.exists \/ ~file.doc.hasCategory) => r.data = <<>>

\* a List that returned two categories of the owner and left out a third
\* record, or returned one of two
C11_Witness ==
  /\ resp.ep = "category/list"
  /\ resp.success
  /\ Len(resp.data) >= 1
  /\ Len(resp.data) < Len(CategoryRecords)

\* the character '#' followed by exactly six characters from 0-9, a-f, A-F
IsHexColor(v) ==
  /\ v.kind = "string"
  /\ Len(v.items[1]) = 7
  /\ v.items[1][1] = "#"
  /\ \A i \in 2..7 : v.items[1][i] \in HexChars

\* C12: Category Create and Category Update accept a color exactly when it is
\* '#' followed by six hexadecimal digits: every such color is accepted, so
\* every color in the store is one, and a request with any other color value
\* is answered 400 "Not a valid hex color" without a jsonTools call and with
\* the store unchanged.
C12_OnlyHexColorsAccepted ==
  /\ \A i \in 1..Len(CategoryRecords) : IsHexColor(CategoryRecords[i].color)
  /\ \A in \in CategoryFocus.fields \X CategoryFocus.owners :
       IsHexColor(in[1][2]) =>
         CategoryCreateHandler(file, in[1][1], in[1][2], in[2]).resp.success
  /\ (resp.ep \in {"category/create", "category/update"}
        /\ resp.error = "Not a valid hex color") =>
       /\ resp.status = 400
       /\ trace.jt = "none"
       /\ ~trace.changed

\* the rest of the document: the user collection
SameUsers(f, g) == f.doc.user = g.doc.user /\ f.doc.hasUser = g.doc.hasUser

\* C13: Category Update(id, name, color, owner) and Category Delete(id,
\* owner) touch at most the one category that has the id and the owner.  A
\* successful Update sets the name and the color of that record and leaves
\* its id, its user and its position as they are; a successful Delete removes
\* that record alone; the other category records and the user collection
\* are unchanged.  When only a category of another owner has the id, both
\* fail with "Category not found" and the file is unchanged.
C13_UpdateDeleteFrame ==
  /\ \A in \in CategoryUpdateInputs(CategoryFocus) :
       LET h == CategoryUpdateHandler(file, in[1], in[2][1], in[2][2], in[3])
           after == h.file.doc.category
           Hit(i) == /\ CategoryRecords[i].id = h.resp.id
                     /\ CategoryRecords[i].user = in[3]
       IN /\ h.resp.success =>
               /\ \E i \in 1..Len(CategoryRecords) : Hit(i)
               /\ Len(after) = Len(CategoryRecords)
               /\ \A i \in 1..Len(CategoryRecords) :
                    /\ after[i].id = CategoryRecords[i].id
                    /\ after[i].user = CategoryRecords[i].user
                    /\ Hit(i) => after[i].name = in[2][1] /\ after[i].color = in[2][2]
                    /\ ~Hit(i) => after[i] = CategoryRecords[i]
               /\ SameUsers(h.file, file)
          /\ ~h.resp.success => h.file = file
          /\ (\A i \in 1..Len(CategoryRecords) :
                CategoryRecords[i].id = ToNumber(in[1]) =>
                  CategoryRecords[i].user # in[3]) =>
               /\ ~h.resp.success
               /\ isValidHex(in[2][2]) /\ in[1] # <<>> /\ in[2][1] # "" /\ in[3] # ""
                    => h.resp.error = "Category not found"
  /\ \A in \in IdOwnerInputs(CategoryFocus) :
       LET h == CategoryDeleteHandler(file, in[1], in[2])
           after == h.file.doc.category
           Hit(i) == /\ CategoryRecords[i].id = h.resp.id
                     /\ CategoryRecords[i].user = in[2]
       IN /\ h.resp.success =>
               \E i \in 1..Len(CategoryRecords) :
                 /\ Hit(i)
                 /\ Len(after) = Len(CategoryRecords) - 1
                 /\ \A j \in 1..Len(after) :
                      after[j] = CategoryRecords[IF j < i THEN j ELSE j + 1]
                 /\ SameUsers(h.file, file)
          /\ ~h.resp.success => h.file = file
          /\ (\A i \in 1..Len(CategoryRecords) :
                CategoryRecords[i].id = parseInt(in[1]) =>
                  CategoryRecords[i].user # in[2]) =>
               /\ ~h.resp.success
               /\ parseInt(in[1]) # NaN /\ in[2] # ""
                    => h.resp.error = "Category not found"

\* an Update of one owner's category answered with success while the other
\* owner's category is in the store, with a user in the user collection
C13_Witness ==
  /\ resp.ep = "category/update"
  /\ resp.success
  /\ Len(CategoryRecords) = 2
  /\ CategoryRecords[1].user # CategoryRecords[2].user
  /\ CategoryRecords[1].name # CategoryRecords[2].name
  /\ Len(UserRecords) = 1

ReadEndpoints == {"user/get", "user/verify", "category/list", "category/get"}

\* C14: the file changes only through a mutating request that is answered
\* with success:true: a request to a read endpoint, and a request to any
\* endpoint that is answered with success:false, leaves the file as it was
\* (no saveJson call), and a file that was absent is still absent.
C14_OnlySuccessfulMutationsWrite ==
  /\ (resp.ep \in ReadEndpoints \/ ~resp.success) =>
       ~trace.changed /\ ~trace.saved
  /\ \A u \in Usernames :
       /\ UserGetHandler(file, u).file = file
       /\ \A p \in Passwords : UserVerifyHandler(file, u, p).file = file
  /\ \A o \in UserFocus.owners :
       /\ CategoryListHandler(file, o).file = file
       /\ \A id \in UserFocus.ids : CategoryGetHandler(file, id, o).file = file

\* a read request answered with success:false while there is no file
C14_Witness ==
  /\ resp.ep = "category/get"
  /\ resp.status = 404
  /\ ~file.exists

====
